---- MODULE Spec2Model ----
(***************************************************************************)
(* The editor of src/src/App.js as a state machine: the three Documents    *)
(* and the DataObject held by App, the Preview with its two debounced      *)
(* values, the debounced writer of the durable store, and the publish      *)
(* Button.  Time is counted in ticks; a timer that is due must run before  *)
(* time moves on, and user events may still come in first.                 *)
(***************************************************************************)
EXTENDS Naturals, Integers, Sequences, FiniteSets, TLC

(***************************************************************************)
(* Bounds and program constants.                                           *)
(***************************************************************************)
\* Requests the model lets be in flight at once (the code sets no limit).
MaxInflight == 2

\* The three delays of the code, in ticks of 500 ms: useDebounce(..., 500),
\* debounce(..., 1000, {maxWait: 5000}).
delay == 1
wait == 2
maxWait == 10

Min(a, b) == IF a <= b THEN a ELSE b

(***************************************************************************)
(* JavaScript values.  A value is a record {type, val}: a string, null, or *)
(* an object, of which only the field `title` is followed (val is its      *)
(* title, Undefined when it has none).                                     *)
(***************************************************************************)
Undefined == "<undefined>"
JSString(s) == [type |-> "string", val |-> s]
JSNull == [type |-> "null", val |-> Undefined]
JSObject(title) == [type |-> "object", val |-> title]

\* `x || y` takes y when x is falsy: here null or the empty string.
Truthy(v) == ~(v.type = "null" \/ (v.type = "string" /\ v.val = ""))
OrElse(v, d) == IF Truthy(v) THEN v ELSE d

\* The built-in examples; a one-marker template stands for html-example.
htmlExample == "<h1>{{title}}</h1>"
cssExample == "h1 { color: red }"
defaultParams == JSObject("Hello, World!")

\* The texts a user types in the three editors.
BrokenTemplate == "{{#if"
HtmlTexts == {htmlExample, "", BrokenTemplate}
CssTexts == {cssExample, ""}
CompactDefault == "{\"title\":\"Hello, World!\"}"
PrettyDefault == "{\n  \"title\": \"Hello, World!\"\n}"
DataTexts == {CompactDefault, "{}", "null", "{"}
ParamValues == {defaultParams, JSObject(Undefined), JSNull}
\* The credentials a user enters.
Credentials == {"key-1"}

(***************************************************************************)
(* JSON.                                                                   *)
(***************************************************************************)
\* JSON.parse(text): [ok |-> FALSE] stands for the SyntaxError it throws.
JSONParse(text) ==
    CASE text \in {CompactDefault, PrettyDefault} ->
             [ok |-> TRUE, value |-> defaultParams]
      [] text = "{}" -> [ok |-> TRUE, value |-> JSObject(Undefined)]
      [] text = "null" -> [ok |-> TRUE, value |-> JSNull]
      [] OTHER -> [ok |-> FALSE, value |-> JSNull]

\* JSON.stringify(value)
JSONStringify(v) ==
    CASE v.type = "null" -> "null"
      [] v.type = "object" /\ v.val = Undefined -> "{}"
      [] v.type = "object" -> "{\"title\":\"" \o v.val \o "\"}"
      [] OTHER -> "\"" \o v.val \o "\""

\* JSON.stringify(value, null, 2)
JSONStringifyPretty(v) ==
    CASE v.type = "null" -> "null"
      [] v.type = "object" /\ v.val = Undefined -> "{}"
      [] v.type = "object" -> "{\n  \"title\": \"" \o v.val \o "\"\n}"
      [] OTHER -> "\"" \o v.val \o "\""

(***************************************************************************)
(* handlebars.compile(html)(params)                                        *)
(***************************************************************************)
\* The templates handlebars refuses: here the unclosed block.
CompileFails(template) == template = BrokenTemplate

TitleOf(data) ==
    IF data.type = "object" /\ data.val # Undefined THEN data.val ELSE ""

\* The rendering of a template that compiles.
Render(template, data) ==
    IF template = htmlExample THEN "<h1>" \o TitleOf(data) \o "</h1>"
    ELSE template

\* A variant of the try/catch whose catch returns nothing to show.
CompileOrEmpty(template, data) ==
    IF template = BrokenTemplate THEN "" ELSE Render(template, data)

\* The try/catch around the compilation: the raw template when it throws.
CompileOrRaw(template, data) ==
    IF CompileFails(template) THEN template ELSE Render(template, data)

(***************************************************************************)
(* The state.                                                              *)
(***************************************************************************)
VARIABLES
    html,            \* App: the markup Document
    css,             \* App: the stylesheet Document
    params,          \* App: the DataObject
    paramsJson,      \* App: the text of the data Document
    apiKey,          \* App: the Credential
    loading,         \* Button: a publish is running
    debouncedHtml,   \* Preview: useDebounce(html, 500)
    debouncedParams, \* Preview: useDebounce(params, 500)
    compiledHtml,    \* Preview: the CompiledOutput
    htmlTimer,       \* ticks until debouncedHtml follows html, or NoTimer
    paramsTimer,     \* ticks until debouncedParams follows params, or NoTimer
    deb,             \* the closure of debouncedWriteStorage
    store,           \* the durable store: key -> text, or Absent
    storeFails,      \* the store refuses writes (unavailable, quota exceeded)
    inflight,        \* the publish requests awaiting their response
    alert,           \* the last message shown to the user
    console,         \* the last entry written to the console
    lastGood,        \* history: the last output of a compilation that succeeded
    burst,           \* history: the calls of the writer since it was last quiet
    dirtyAge         \* history: ticks since the oldest call not yet executed

vars == <<html, css, params, paramsJson, apiKey, loading, debouncedHtml,
          debouncedParams, compiledHtml, htmlTimer, paramsTimer, deb, store,
          storeFails, inflight, alert, console, lastGood, burst, dirtyAge>>

\* No timer is set; no call was made yet.
NoTimer == 0 - 1
Never == 0 - 1
None == "<none>"

(***************************************************************************)
(* The durable store (@rehooks/local-storage over localStorage).           *)
(***************************************************************************)
\* The keys the code writes, and one more the store could hold.
Keys == {"html", "css", "params"}
StoreKeys == Keys \cup {"apiKey"}
Absent == "<absent>"

\* writeStorage(key, value): objects (and null) are stored as JSON.
writeStorage(st, key, value) ==
    [st EXCEPT ![key] = IF value.type \in {"object", "null"}
                        THEN JSONStringify(value) ELSE value.val]

\* What useLocalStorage(key) returns on the first render: null for an absent
\* key, else the stored text parsed as JSON, or as it is when it is no JSON.
useLocalStorage(st, key) ==
    IF st[key] = Absent THEN JSNull
    ELSE IF JSONParse(st[key]).ok THEN JSONParse(st[key]).value
    ELSE JSString(st[key])

\* A variant of the function that also keeps the key.
WriteAllAndKey(st, args, n) ==
    [st EXCEPT !["html"] = args.html, !["css"] = args.css,
               !["params"] = JSONStringify(args.params), !["apiKey"] = apiKey]

\* The function debouncedWriteStorage wraps, stopped by a failing write after
\* `n` of its three writes (n = 3: all three succeed).
WriteAll(st, args, n) ==
    LET s1 == IF n >= 1 THEN writeStorage(st, "html", JSString(args.html))
              ELSE st
        s2 == IF n >= 2 THEN writeStorage(s1, "css", JSString(args.css))
              ELSE s1
    IN  IF n >= 3 THEN writeStorage(s2, "params", args.params) ELSE s2

(***************************************************************************)
(* lodash.debounce(func, 1000, {maxWait: 5000}).  The closure keeps the    *)
(* pending arguments, the ages of the last call and of the last invocation *)
(* (capped where the code only compares them with wait and maxWait), and   *)
(* the ticks left on its timer.  Each operator returns the new closure and *)
(* the arguments func was invoked with, if it was.                         *)
(***************************************************************************)
FreshDebounce ==
    [lastArgs |-> <<>>, timeSinceLastCall |-> Never,
     timeSinceLastInvoke |-> maxWait, timerId |-> NoTimer]

shouldInvoke(d) ==
    \/ d.timeSinceLastCall = Never
    \/ d.timeSinceLastCall >= wait
    \/ d.timeSinceLastInvoke >= maxWait

\* A variant of remainingWait that leaves maxWait out.
remainingWaitWithoutMax(d) == wait - d.timeSinceLastCall

remainingWait(d) ==
    Min(wait - d.timeSinceLastCall, maxWait - d.timeSinceLastInvoke)

invokeFunc(d) ==
    [deb |-> [d EXCEPT !.lastArgs = <<>>, !.timeSinceLastInvoke = 0],
     exec |-> d.lastArgs]

\* A variant of leadingEdge that starts no timer.
leadingEdgeWithoutTimer(d) ==
    [deb |-> [d EXCEPT !.timeSinceLastInvoke = 0], exec |-> <<>>]

leadingEdge(d) ==
    [deb |-> [d EXCEPT !.timeSinceLastInvoke = 0, !.timerId = wait],
     exec |-> <<>>]

\* A variant of trailingEdge that drops the pending arguments.
trailingEdgeDrops(d) ==
    [deb |-> [d EXCEPT !.timerId = NoTimer, !.lastArgs = <<>>], exec |-> <<>>]

trailingEdge(d) ==
    IF d.lastArgs # <<>>
    THEN invokeFunc([d EXCEPT !.timerId = NoTimer])
    ELSE [deb |-> [d EXCEPT !.timerId = NoTimer], exec |-> <<>>]

\* A variant of timerExpired that never waits again.
timerExpiredInvokesAlways(d) == trailingEdge(d)

timerExpired(d) ==
    IF shouldInvoke(d) THEN trailingEdge(d)
    ELSE [deb |-> [d EXCEPT !.timerId = remainingWait(d)], exec |-> <<>>]

\* A variant of debounced that keeps the arguments of the first pending call.
debouncedKeepsFirst(d, args) ==
    LET called == [d EXCEPT !.lastArgs = IF @ = <<>> THEN <<args>> ELSE @,
                            !.timeSinceLastCall = 0]
    IN  IF shouldInvoke(d) /\ d.timerId = NoTimer THEN leadingEdge(called)
        ELSE IF shouldInvoke(d) THEN invokeFunc([called EXCEPT !.timerId = wait])
        ELSE IF d.timerId = NoTimer
             THEN [deb |-> [called EXCEPT !.timerId = wait], exec |-> <<>>]
        ELSE [deb |-> called, exec |-> <<>>]

debounced(d, args) ==
    LET called == [d EXCEPT !.lastArgs = <<args>>, !.timeSinceLastCall = 0]
    IN  IF shouldInvoke(d) /\ d.timerId = NoTimer THEN leadingEdge(called)
        ELSE IF shouldInvoke(d) THEN invokeFunc([called EXCEPT !.timerId = wait])
        ELSE IF d.timerId = NoTimer
             THEN [deb |-> [called EXCEPT !.timerId = wait], exec |-> <<>>]
        ELSE [deb |-> called, exec |-> <<>>]

\* The closure as one tick passes.
Aged(d) ==
    [d EXCEPT
       !.timeSinceLastCall = IF @ = Never THEN Never ELSE Min(@ + 1, wait),
       !.timeSinceLastInvoke = Min(@ + 1, maxWait),
       !.timerId = IF @ = NoTimer THEN NoTimer ELSE @ - 1]

(***************************************************************************)
(* History of the writer, kept for the properties: the run of calls since  *)
(* the writer was last quiet for `wait` (a burst), and the age of the      *)
(* oldest call no execution has served yet.                                *)
(***************************************************************************)
\* A call arrives at the closure d (before the call); isEdit: it comes from a
\* Document change, not from the session's start.
BurstOnCall(b, d, isEdit) ==
    IF d.timeSinceLastCall = Never \/ d.timeSinceLastCall >= wait
    THEN [idleStart |-> d.timerId = NoTimer, len |-> 0,
          editLen |-> IF isEdit THEN 0 ELSE Never,
          execs |-> 0, early |-> FALSE, wrote |-> 0]
    ELSE [b EXCEPT
            !.len = Min(@ + d.timeSinceLastCall, maxWait),
            !.editLen = IF ~isEdit THEN @
                        ELSE IF @ = Never THEN 0
                        ELSE Min(@ + d.timeSinceLastCall, maxWait),
            !.early = @ \/ b.execs > 0]

\* func is executed and `n` of its writes succeed.
BurstOnExec(b, n) == [b EXCEPT !.execs = Min(@ + 1, 2), !.wrote = n]

\* The burst has ended: no call for `wait`, and the timer has run.
Closed == deb.timerId = NoTimer /\ deb.timeSinceLastCall >= wait

\* What the three keys hold after a save of the Documents in memory.
Snapshot ==
    [k \in StoreKeys |-> CASE k = "html" -> html
                           [] k = "css" -> css
                           [] k = "params" -> JSONStringify(params)
                           [] OTHER -> Absent]

(***************************************************************************)
(* Messages and console entries.                                           *)
(***************************************************************************)
MissingKeyMessage == "Please provide your API key before publishing a template."
UnsuccessfulMessage ==
    "Publish was unsuccessful. Please ensure you are providing a valid API key."
SuccessMessage(template) ==
    "Save successful. Use template ID " \o template \o "."

\* A console entry: what was written and, for the error axios rejects with,
\* the Authorization header of the request the error carries in its config.
Entry(what, authorization) == [what |-> what, authorization |-> authorization]
NoEntry == Entry(None, None)
CompileWarning == Entry("Error when compiling handlebars, using raw HTML", None)
ParseWarning == Entry("Error parsing JSON", None)
PublishError(request) == Entry("AxiosError", request.headers.Authorization)

\* The responses of the publish endpoint.
TemplateIds == {"tpl-1"}
Responses ==
    {[kind |-> "2xx", template |-> t] : t \in TemplateIds}
        \cup {[kind |-> k, template |-> None] : k \in {"non-2xx", "network error"}}

(***************************************************************************)
(* The session's start: App's and Preview's first render and its effects.  *)
(***************************************************************************)
Args(h, c, p) == [html |-> h, css |-> c, params |-> p]

NoBurst ==
    [idleStart |-> FALSE, len |-> 0, editLen |-> Never, execs |-> 0,
     early |-> FALSE, wrote |-> 0]

Session(st) ==
    LET h == OrElse(useLocalStorage(st, "html"), JSString(htmlExample)).val
        c == OrElse(useLocalStorage(st, "css"), JSString(cssExample)).val
        p == OrElse(useLocalStorage(st, "params"), defaultParams)
    IN  [html |-> h, css |-> c, params |-> p,
         paramsJson |-> JSONStringifyPretty(p),
         apiKey |-> "",
         loading |-> FALSE,
         debouncedHtml |-> h, debouncedParams |-> p,
         compiledHtml |-> CompileOrRaw(h, p),
         console |-> IF CompileFails(h) THEN CompileWarning ELSE NoEntry,
         lastGood |-> IF CompileFails(h) THEN None ELSE Render(h, p),
         deb |-> debounced(FreshDebounce, Args(h, c, p)).deb,
         burst |-> BurstOnCall(NoBurst, FreshDebounce, FALSE)]

\* The stores a session may find: each key absent or left by an earlier one.
StoredParams == {JSONStringify(p) : p \in ParamValues}
InitialStores ==
    {st \in [StoreKeys -> HtmlTexts \cup CssTexts \cup StoredParams \cup {Absent}] :
        /\ st["html"] \in HtmlTexts \cup {Absent}
        /\ st["css"] \in CssTexts \cup {Absent}
        /\ st["params"] \in StoredParams \cup {Absent}
        /\ st["apiKey"] = Absent}

Init ==
    \E st \in InitialStores :
        LET s == Session(st)
        IN  /\ store = st
            /\ storeFails = FALSE
            /\ html = s.html /\ css = s.css /\ params = s.params
            /\ paramsJson = s.paramsJson /\ apiKey = s.apiKey
            /\ loading = s.loading
            /\ debouncedHtml = s.debouncedHtml
            /\ debouncedParams = s.debouncedParams
            /\ compiledHtml = s.compiledHtml
            /\ htmlTimer = NoTimer /\ paramsTimer = NoTimer
            /\ deb = s.deb
            /\ inflight = <<>>
            /\ alert = None
            /\ console = s.console
            /\ lastGood = s.lastGood
            /\ burst = s.burst
            /\ dirtyAge = 0

\* The page is loaded again: a new session over the store as it is.
Reload ==
    LET s == Session(store)
    IN  /\ html' = s.html /\ css' = s.css /\ params' = s.params
        /\ paramsJson' = s.paramsJson /\ apiKey' = s.apiKey
        /\ loading' = s.loading
        /\ debouncedHtml' = s.debouncedHtml
        /\ debouncedParams' = s.debouncedParams
        /\ compiledHtml' = s.compiledHtml
        /\ htmlTimer' = NoTimer /\ paramsTimer' = NoTimer
        /\ deb' = s.deb
        /\ inflight' = <<>>
        /\ alert' = None
        /\ console' = s.console
        /\ lastGood' = s.lastGood
        /\ burst' = s.burst
        /\ dirtyAge' = 0
        /\ UNCHANGED <<store, storeFails>>

(***************************************************************************)
(* App's effect on [html, css, params]: debouncedWriteStorage(...).        *)
(***************************************************************************)
\* How many of func's three writes succeed when the step r executes it: all
\* of them, or fewer when the store refuses a write and throws.
WriteResults(r) == IF r.exec # <<>> /\ storeFails THEN 0..2 ELSE {3}

\* The closure's step r is taken; n of func's writes succeed if it ran.
Saved(r, b, n) ==
    /\ deb' = r.deb
    /\ store' = IF r.exec # <<>> THEN WriteAll(store, r.exec[1], n) ELSE store
    /\ burst' = IF r.exec # <<>> THEN BurstOnExec(b, n) ELSE b

WriteEffect(h, c, p, n) ==
    /\ Saved(debounced(deb, Args(h, c, p)), BurstOnCall(burst, deb, TRUE), n)
    /\ dirtyAge' = IF debounced(deb, Args(h, c, p)).exec # <<>> THEN Never
                   ELSE IF dirtyAge = Never THEN 0 ELSE dirtyAge

(***************************************************************************)
(* The editors.                                                            *)
(***************************************************************************)
\* A variant of the markup editor under a useDebounce that lets a running
\* timer run on.
setHtmlKeepsTimer(text) ==
    /\ text # html
    /\ html' = text
    /\ htmlTimer' = IF htmlTimer = NoTimer THEN delay ELSE htmlTimer
    /\ \E n \in WriteResults(debounced(deb, Args(text, css, params))) :
           WriteEffect(text, css, params, n)
    /\ UNCHANGED <<css, params, paramsJson, apiKey, loading, debouncedHtml,
                   debouncedParams, compiledHtml, paramsTimer, inflight,
                   alert, console, lastGood, storeFails>>

setHtml(text) ==
    /\ text # html
    /\ html' = text
    /\ htmlTimer' = delay
    /\ \E n \in WriteResults(debounced(deb, Args(text, css, params))) :
           WriteEffect(text, css, params, n)
    /\ UNCHANGED <<css, params, paramsJson, apiKey, loading, debouncedHtml,
                   debouncedParams, compiledHtml, paramsTimer, inflight,
                   alert, console, lastGood, storeFails>>

setCss(text) ==
    /\ text # css
    /\ css' = text
    /\ \E n \in WriteResults(debounced(deb, Args(html, text, params))) :
           WriteEffect(html, text, params, n)
    /\ UNCHANGED <<html, params, paramsJson, apiKey, loading, debouncedHtml,
                   debouncedParams, compiledHtml, htmlTimer, paramsTimer,
                   inflight, alert, console, lastGood, storeFails>>

\* setParams(value) changes params unless both are null: a parsed object is
\* a new object each time.
SameValue(a, b) == a.type = "null" /\ b.type = "null"

\* A variant of the handler whose catch resets the DataObject.
onChangeDataResets(val) ==
    /\ ~JSONParse(val).ok
    /\ params' = JSNull
    /\ console' = ParseWarning
    /\ UNCHANGED <<html, css, paramsJson, apiKey, loading, debouncedHtml,
                   debouncedParams, compiledHtml, htmlTimer, paramsTimer, deb,
                   store, inflight, alert, lastGood, burst, dirtyAge,
                   storeFails>>

onChangeData(val) ==
    IF JSONParse(val).ok
    THEN LET value == JSONParse(val).value
         IN  /\ params' = value
             /\ paramsJson' = val
             /\ IF SameValue(value, params)
                THEN UNCHANGED <<paramsTimer, deb, store, burst, dirtyAge>>
                ELSE /\ paramsTimer' = delay
                     /\ \E n \in WriteResults(debounced(deb, Args(html, css, value))) :
                            WriteEffect(html, css, value, n)
             /\ UNCHANGED <<html, css, apiKey, loading, debouncedHtml,
                            debouncedParams, compiledHtml, htmlTimer, inflight,
                            alert, console, lastGood, storeFails>>
    ELSE /\ console' = ParseWarning
         /\ UNCHANGED <<html, css, params, paramsJson, apiKey, loading,
                        debouncedHtml, debouncedParams, compiledHtml, htmlTimer,
                        paramsTimer, deb, store, inflight, alert, lastGood,
                        burst, dirtyAge, storeFails>>

setApiKey(value) ==
    /\ value # apiKey
    /\ apiKey' = value
    /\ UNCHANGED <<html, css, params, paramsJson, loading, debouncedHtml,
                   debouncedParams, compiledHtml, htmlTimer, paramsTimer, deb,
                   store, inflight, alert, console, lastGood, burst, dirtyAge, storeFails>>

(***************************************************************************)
(* Preview: the two useDebounce timers and the compiling effect.           *)
(***************************************************************************)
\* A variant of the effect whose catch keeps the output it had.
PreviewEffectKeepsLast(template, data) ==
    IF CompileFails(template)
    THEN /\ console' = CompileWarning
         /\ UNCHANGED <<compiledHtml, lastGood>>
    ELSE /\ compiledHtml' = Render(template, data)
         /\ lastGood' = Render(template, data)
         /\ UNCHANGED console

\* The effect on [debouncedHtml, debouncedParams].
PreviewEffect(template, data) ==
    IF CompileFails(template)
    THEN /\ console' = CompileWarning
         /\ compiledHtml' = template
         /\ UNCHANGED lastGood
    ELSE /\ compiledHtml' = Render(template, data)
         /\ lastGood' = Render(template, data)
         /\ UNCHANGED console

\* useDebounce(html, 500) hands on the value; Preview renders again, and its
\* effect runs, when the value differs from the one it had.
htmlDebounced ==
    /\ htmlTimer = 0
    /\ htmlTimer' = NoTimer
    /\ debouncedHtml' = html
    /\ IF html # debouncedHtml
       THEN PreviewEffect(html, debouncedParams)
       ELSE UNCHANGED <<compiledHtml, console, lastGood>>
    /\ UNCHANGED <<html, css, params, paramsJson, apiKey, loading,
                   debouncedParams, paramsTimer, deb, store, inflight, alert,
                   burst, dirtyAge, storeFails>>

paramsDebounced ==
    /\ paramsTimer = 0
    /\ paramsTimer' = NoTimer
    /\ debouncedParams' = params
    /\ IF ~SameValue(params, debouncedParams)
       THEN PreviewEffect(debouncedHtml, params)
       ELSE UNCHANGED <<compiledHtml, console, lastGood>>
    /\ UNCHANGED <<html, css, params, paramsJson, apiKey, loading,
                   debouncedHtml, htmlTimer, deb, store, inflight, alert,
                   burst, dirtyAge, storeFails>>

(***************************************************************************)
(* The writer's timer and the clock.                                       *)
(***************************************************************************)
\* A variant of the timer's step that shows the user a write's failure.
writeTimerExpiredShowsFailure ==
    /\ deb.timerId = 0
    /\ \E n \in WriteResults(timerExpired(deb)) :
           /\ Saved(timerExpired(deb), burst, n)
           /\ alert' = IF n < 3 THEN "QuotaExceededError" ELSE alert
    /\ dirtyAge' = IF timerExpired(deb).exec # <<>> THEN Never ELSE dirtyAge
    /\ UNCHANGED <<html, css, params, paramsJson, apiKey, loading,
                   debouncedHtml, debouncedParams, compiledHtml, htmlTimer,
                   paramsTimer, inflight, console, lastGood, storeFails>>

writeTimerExpired ==
    /\ deb.timerId = 0
    /\ \E n \in WriteResults(timerExpired(deb)) :
           Saved(timerExpired(deb), burst, n)
    /\ dirtyAge' = IF timerExpired(deb).exec # <<>> THEN Never ELSE dirtyAge
    /\ UNCHANGED <<html, css, params, paramsJson, apiKey, loading,
                   debouncedHtml, debouncedParams, compiledHtml, htmlTimer,
                   paramsTimer, inflight, alert, console, lastGood, storeFails>>

Countdown(t) == IF t = NoTimer THEN NoTimer ELSE t - 1

\* One tick passes; no timer that is due is kept waiting.
Tick ==
    /\ htmlTimer # 0 /\ paramsTimer # 0 /\ deb.timerId # 0
    /\ htmlTimer' = Countdown(htmlTimer)
    /\ paramsTimer' = Countdown(paramsTimer)
    /\ deb' = Aged(deb)
    /\ dirtyAge' = IF dirtyAge = Never THEN Never ELSE Min(dirtyAge + 1, maxWait + 1)
    /\ UNCHANGED <<html, css, params, paramsJson, apiKey, loading,
                   debouncedHtml, debouncedParams, compiledHtml, store,
                   inflight, alert, console, lastGood, burst, storeFails>>

(***************************************************************************)
(* The publish Button.                                                     *)
(***************************************************************************)
\* A variant of the button that is never disabled.
ButtonNeverDisabled == TRUE

\* <button disabled={loading}>
ButtonEnabled == ~loading

\* A variant of the request that carries what the preview has compiled from.
RequestOfPreview ==
    [body |-> debouncedHtml, styles |-> css,
     headers |-> [Authorization |-> apiKey]]

\* The request axios.post sends.
Request ==
    [body |-> html, styles |-> css, headers |-> [Authorization |-> apiKey]]

\* A variant of publish without the check of the key.
publishWithoutKeyCheck ==
    /\ inflight' = Append(inflight, Request)
    /\ alert' = None

\* publish, up to its await: the alert when there is no key, else the request.
publish ==
    IF apiKey = ""
    THEN /\ alert' = MissingKeyMessage
         /\ UNCHANGED inflight
    ELSE /\ inflight' = Append(inflight, Request)
         /\ alert' = None

\* The button's onClick: setLoading(true), publish, and setLoading(false)
\* once publish has returned.
onClick ==
    /\ ButtonEnabled
    /\ Len(inflight) < MaxInflight
    /\ publish
    /\ loading' = (apiKey # "")
    /\ UNCHANGED <<html, css, params, paramsJson, apiKey, debouncedHtml,
                   debouncedParams, compiledHtml, htmlTimer, paramsTimer, deb,
                   store, console, lastGood, burst, dirtyAge, storeFails>>

Without(seq, i) == SubSeq(seq, 1, i - 1) \o SubSeq(seq, i + 1, Len(seq))

\* A variant of publish whose catch shows the error it caught.
publishedShowsError(i, r) ==
    IF r.kind = "2xx"
    THEN /\ alert' = SuccessMessage(r.template)
         /\ UNCHANGED console
    ELSE /\ alert' = "Error: " \o r.kind
         /\ console' = PublishError(inflight[i])

\* publish after its await: the response r to request i has come.
published(i, r) ==
    IF r.kind = "2xx"
    THEN /\ alert' = SuccessMessage(r.template)
         /\ UNCHANGED console
    ELSE /\ alert' = UnsuccessfulMessage
         /\ console' = PublishError(inflight[i])

\* A variant of the response step under a publish that lets a failure escape:
\* the Button's setLoading(false) is then never reached.
onResponseEscapes(i, r) ==
    /\ i \in 1..Len(inflight)
    /\ published(i, r)
    /\ inflight' = Without(inflight, i)
    /\ loading' = (r.kind # "2xx")
    /\ UNCHANGED <<html, css, params, paramsJson, apiKey, debouncedHtml,
                   debouncedParams, compiledHtml, htmlTimer, paramsTimer, deb,
                   store, lastGood, burst, dirtyAge, storeFails>>

onResponse(i, r) ==
    /\ i \in 1..Len(inflight)
    /\ published(i, r)
    /\ inflight' = Without(inflight, i)
    /\ loading' = FALSE
    /\ UNCHANGED <<html, css, params, paramsJson, apiKey, debouncedHtml,
                   debouncedParams, compiledHtml, htmlTimer, paramsTimer, deb,
                   store, lastGood, burst, dirtyAge, storeFails>>

(***************************************************************************)
(* The environment of the store.                                           *)
(***************************************************************************)
\* The store starts or stops refusing writes.
storeChanges ==
    /\ storeFails' = ~storeFails
    /\ UNCHANGED <<html, css, params, paramsJson, apiKey, loading,
                   debouncedHtml, debouncedParams, compiledHtml, htmlTimer,
                   paramsTimer, deb, store, inflight, alert, console, lastGood,
                   burst, dirtyAge>>

(***************************************************************************)
(* The specifications.  Next is the whole program.  The publish Button     *)
(* does not read the clock, so Spec leaves time out; the timed             *)
(* specifications each follow some of the editors, with fewer texts.       *)
(***************************************************************************)
Next ==
    \/ \E text \in HtmlTexts : setHtml(text)
    \/ \E text \in CssTexts : setCss(text)
    \/ \E val \in DataTexts : onChangeData(val)
    \/ \E value \in Credentials \cup {""} : setApiKey(value)
    \/ htmlDebounced
    \/ paramsDebounced
    \/ writeTimerExpired
    \/ Tick
    \/ onClick
    \/ \E i \in 1..MaxInflight, r \in Responses : onResponse(i, r)
    \/ storeChanges
    \/ Reload

\* Editing and publishing, with the clock stopped.
NextUntimed ==
    \/ \E text \in HtmlTexts : setHtml(text)
    \/ \E text \in CssTexts : setCss(text)
    \/ \E val \in DataTexts : onChangeData(val)
    \/ \E value \in Credentials \cup {""} : setApiKey(value)
    \/ onClick
    \/ \E i \in 1..MaxInflight, r \in Responses : onResponse(i, r)
    \/ Reload

Spec == Init /\ [][NextUntimed]_vars

\* The preview: markup and data edits under the clock, from a store that
\* holds at most a markup.
InitPreview == Init /\ store["css"] = Absent /\ store["params"] = Absent

NextPreview ==
    \/ \E text \in HtmlTexts : setHtml(text)
    \/ \E val \in {"{}", CompactDefault} : onChangeData(val)
    \/ htmlDebounced
    \/ paramsDebounced
    \/ writeTimerExpired
    \/ Tick

SpecPreview == InitPreview /\ [][NextPreview]_vars

\* The durable store: stylesheet and data edits under the clock, over every
\* store a session may find, with reloads.
NextSave ==
    \/ \E text \in CssTexts : setCss(text)
    \/ \E val \in {"null", CompactDefault} : onChangeData(val)
    \/ paramsDebounced
    \/ writeTimerExpired
    \/ Tick
    \/ Reload

SpecSave == Init /\ [][NextSave]_vars

\* The Credential: stylesheet edits, the key, the publish Button and reloads
\* under the clock, from a store that holds at most a stylesheet.
InitCredential == Init /\ store["html"] = Absent /\ store["params"] = Absent

NextCredential ==
    \/ \E text \in CssTexts : setCss(text)
    \/ \E value \in Credentials \cup {""} : setApiKey(value)
    \/ writeTimerExpired
    \/ Tick
    \/ onClick
    \/ \E i \in 1..MaxInflight, r \in Responses : onResponse(i, r)
    \/ Reload

SpecCredential == InitCredential /\ [][NextCredential]_vars

\* The three editors together under the clock, from an empty store.
InitEditors == Init /\ \A k \in StoreKeys : store[k] = Absent

NextEditors ==
    \/ \E text \in {htmlExample, ""} : setHtml(text)
    \/ \E text \in CssTexts : setCss(text)
    \/ \E val \in {"{}", CompactDefault} : onChangeData(val)
    \/ htmlDebounced
    \/ paramsDebounced
    \/ writeTimerExpired
    \/ Tick

SpecEditors == InitEditors /\ [][NextEditors]_vars

\* A store that refuses writes at times: markup and stylesheet edits under
\* the clock, from an empty store.
NextFailing ==
    \/ \E text \in {htmlExample, ""} : setHtml(text)
    \/ \E text \in CssTexts : setCss(text)
    \/ htmlDebounced
    \/ writeTimerExpired
    \/ Tick
    \/ storeChanges

SpecFailing == InitEditors /\ [][NextFailing]_vars

\* The markup and data editors with timers that run when they are due and a
\* clock that does not stop.
NextQuiet ==
    \/ \E text \in {htmlExample, ""} : setHtml(text)
    \/ \E val \in {"{}", CompactDefault} : onChangeData(val)
    \/ htmlDebounced
    \/ paramsDebounced
    \/ writeTimerExpired
    \/ Tick

SpecQuiet ==
    /\ InitEditors
    /\ [][NextQuiet]_vars
    /\ WF_vars(Tick)
    /\ WF_vars(htmlDebounced)
    /\ WF_vars(paramsDebounced)
    /\ WF_vars(writeTimerExpired)

\* Editing and publishing with a network whose calls complete or fail.
SpecPublish ==
    /\ Spec
    /\ WF_vars(\E i \in 1..MaxInflight, r \in Responses : onResponse(i, r))

(***************************************************************************)
(* The properties.                                                         *)
(***************************************************************************)
\* C1 (as amended): whenever the debounced markup fails to compile, the
\* CompiledOutput is the raw debounced markup, whether or not a compilation
\* succeeded before.
C1_FailureShowsRawMarkup ==
    CompileFails(debouncedHtml) => compiledHtml = debouncedHtml

\* C1's case: a recompilation failed after an earlier one had succeeded, and
\* the output is the raw markup, not the earlier output.
C1_Witness ==
    /\ CompileFails(debouncedHtml)
    /\ lastGood # None
    /\ lastGood # debouncedHtml
    /\ compiledHtml = debouncedHtml

\* C1 as claimed: after a failing compilation the CompiledOutput is the most
\* recent successful output if there is one, and the raw markup only if not.
C1_AsClaimed ==
    CompileFails(debouncedHtml) =>
        compiledHtml = IF lastGood # None THEN lastGood ELSE debouncedHtml

\* C2: a click on publish while the key is empty issues no request and shows
\* the prompt for the key, from every reachable state.
C2_NoKeyNoRequest ==
    [][(onClick /\ apiKey = "") =>
           (inflight' = inflight /\ alert' = MissingKeyMessage)]_vars

\* C2's case: a click without a key, after an earlier publish had failed.
C2_Witness ==
    /\ alert = MissingKeyMessage
    /\ apiKey = ""
    /\ inflight = <<>>
    /\ console.what = "AxiosError"

\* C3: a response that is an error or not a success shows the one fixed
\* message and logs the error; a template id is shown only by a step that
\* receives a successful response, and it is that response's id.
C3_FailureShowsFixedMessage ==
    [][/\ \A i \in 1..Len(inflight), r \in Responses :
              (onResponse(i, r) /\ r.kind # "2xx") =>
                  /\ alert' = UnsuccessfulMessage
                  /\ console' = PublishError(inflight[i])
       /\ (alert' # alert /\ alert' \notin {None, MissingKeyMessage,
                                            UnsuccessfulMessage}) =>
              \E i \in 1..Len(inflight), r \in Responses :
                  /\ onResponse(i, r)
                  /\ r.kind = "2xx"
                  /\ alert' = SuccessMessage(r.template)]_vars

\* C3's case: a publish has failed; the fixed message is shown and the error
\* is in the console.
C3_Witness ==
    /\ alert = UnsuccessfulMessage
    /\ console.what = "AxiosError"
    /\ inflight = <<>>
    /\ ~loading

\* C4: at most one request of the button is in flight, and the button is
\* disabled while it is.
C4_OneRequestInFlight ==
    /\ Len(inflight) <= 1
    /\ inflight # <<>> => loading

\* C4's case: a request is in flight and the Documents have been edited since
\* it was sent.
C4_Witness ==
    /\ Len(inflight) = 1
    /\ loading
    /\ inflight[1].body # html

\* C5 as claimed: when a save of this session has written the three keys and
\* the session starts again, each Document is the value saved under its key.
C5_RoundTrip ==
    [][(Reload /\ burst.execs >= 1 /\ burst.wrote = 3) =>
           /\ html' = store["html"]
           /\ css' = store["css"]
           /\ JSONStringify(params') = store["params"]]_vars

\* C6 as claimed: at a session's start each key is resolved on its own: the
\* stored value when the key is present, the built-in default when it is not.
C6_EachKeyOnItsOwn ==
    [][Reload =>
           /\ html' = IF store["html"] = Absent THEN htmlExample
                      ELSE store["html"]
           /\ css' = IF store["css"] = Absent THEN cssExample
                     ELSE store["css"]
           /\ params' = IF store["params"] = Absent THEN defaultParams
                        ELSE JSONParse(store["params"]).value]_vars

\* C7 (as amended): a burst of calls of the writer (the one made at the
\* session's start included) that begins with no timer pending and at least
\* `wait` after the call before it, whose calls are less than `wait` apart and
\* span less than maxWait, and that has ended, has had exactly one execution,
\* after its last call, and the three keys hold the Documents of that call.
C7_OneSavePerBurst ==
    (Closed /\ burst.idleStart /\ burst.len < maxWait) =>
        /\ burst.execs = 1
        /\ ~burst.early
        /\ burst.wrote = 3 => store = Snapshot

\* C7's case: such a burst of several Document changes, longer than `wait`,
\* has ended with its one save.
C7_Witness ==
    /\ Closed
    /\ burst.idleStart
    /\ burst.editLen # Never
    /\ burst.editLen > wait
    /\ burst.len < maxWait
    /\ burst.execs = 1
    /\ store = Snapshot

\* C7 as claimed: a burst of Document changes less than `wait` apart and
\* shorter than maxWait from its first change to its last, once it has ended,
\* has had exactly one execution, after its last change, with its values.
C7_AsClaimed ==
    (Closed /\ burst.editLen # Never /\ burst.editLen < maxWait) =>
        /\ burst.execs = 1
        /\ ~burst.early
        /\ burst.wrote = 3 => store = Snapshot

\* C8: no call of the writer waits longer than maxWait for an execution,
\* however many calls follow it.
C8_MaxWaitCeiling == dirtyAge <= maxWait

\* C8's case: calls less than `wait` apart have gone on for maxWait, and the
\* writer has just executed although the last call is less than `wait` old.
C8_Witness ==
    /\ burst.idleStart
    /\ burst.execs = 1
    /\ deb.timerId = NoTimer
    /\ deb.timeSinceLastInvoke = 0
    /\ deb.timeSinceLastCall < wait
    /\ burst.len + deb.timeSinceLastCall = maxWait
    /\ dirtyAge = Never

\* C9: no key of the store holds a Credential, and the store holds nothing
\* under any key but html, css and params.
C9_KeyNeverStored ==
    /\ \A k \in StoreKeys : store[k] \notin Credentials
    /\ \A k \in StoreKeys \ Keys : store[k] = Absent

\* C9's case: a Credential was entered, a publish that carried it has failed,
\* and a save of a later edit has then written the store.
C9_Witness ==
    /\ apiKey \in Credentials
    /\ console = Entry("AxiosError", apiKey)
    /\ burst.editLen # Never
    /\ burst.execs >= 1
    /\ Closed
    /\ store = Snapshot

\* C10 as claimed: every edit of a Document sets its text in memory to the
\* text typed, valid or not.
C10_EditsSetTheText ==
    [][/\ \A text \in HtmlTexts : setHtml(text) => html' = text
       /\ \A text \in CssTexts : setCss(text) => css' = text
       /\ \A val \in DataTexts : onChangeData(val) => paramsJson' = val]_vars

\* C11: the DataObject is always the parse of the data Document's text in
\* memory, and a data edit whose text does not parse leaves the DataObject
\* and its text as they were, shows the user nothing and only warns in the
\* console.
C11_DataObjectIsLastParse ==
    /\ [](JSONParse(paramsJson).ok => params = JSONParse(paramsJson).value)
    /\ [][\A val \in DataTexts :
              (onChangeData(val) /\ ~JSONParse(val).ok) =>
                  /\ params' = params
                  /\ alert' = alert
                  /\ compiledHtml' = compiledHtml]_vars

\* C11's case: a text that does not parse was typed after the DataObject had
\* been changed by an edit; the DataObject is still that of the edit.
C11_Witness ==
    /\ console = ParseWarning
    /\ paramsJson = "{}"
    /\ params = JSObject(Undefined)

\* C12 (as amended): in every state the CompiledOutput is the rendering of
\* the debounced markup against the debounced DataObject or, when that
\* markup does not compile, the raw debounced markup; it is empty only when
\* that value is the empty text.
C12_OutputIsRenderingOrRaw ==
    compiledHtml = IF CompileFails(debouncedHtml) THEN debouncedHtml
                   ELSE Render(debouncedHtml, debouncedParams)

\* C12's case: the markup was cleared and the preview has followed it; the
\* CompiledOutput is the empty text.
C12_Witness ==
    /\ html = ""
    /\ debouncedHtml = ""
    /\ htmlTimer = NoTimer
    /\ compiledHtml = ""
    /\ lastGood = ""

\* C12 as claimed: the CompiledOutput is the rendering or the raw markup, and
\* it is never empty.
C12_AsClaimed ==
    /\ compiledHtml = IF CompileFails(debouncedHtml) THEN debouncedHtml
                      ELSE Render(debouncedHtml, debouncedParams)
    /\ compiledHtml # ""
    /\ compiledHtml # Undefined

\* C13 (as amended): a firing useDebounce hands on the latest value of its
\* own Document, and the recompilation it causes runs on that value and on
\* the debounced value of the other; every execution of the writer leaves
\* the three keys holding the markup, stylesheet and DataObject in memory.
C13_FiringUsesLatestOfItsOwn ==
    [][/\ htmlDebounced =>
              /\ debouncedHtml' = html
              /\ compiledHtml' = IF CompileFails(html) THEN html
                                 ELSE Render(html, debouncedParams)
       /\ paramsDebounced =>
              /\ debouncedParams' = params
              /\ compiledHtml' = IF CompileFails(debouncedHtml) THEN debouncedHtml
                                 ELSE Render(debouncedHtml, params)
       /\ (writeTimerExpired /\ timerExpired(deb).exec # <<>>) =>
              store' = Snapshot'
       /\ \A text \in HtmlTexts :
              (setHtml(text)
                   /\ debounced(deb, Args(text, css, params)).exec # <<>>) =>
                  store' = Snapshot'
       /\ \A text \in CssTexts :
              (setCss(text)
                   /\ debounced(deb, Args(html, text, params)).exec # <<>>) =>
                  store' = Snapshot'
       /\ \A val \in DataTexts :
              (onChangeData(val) /\ JSONParse(val).ok
                   /\ debounced(deb, Args(html, css, JSONParse(val).value)).exec
                          # <<>>) =>
                  store' = Snapshot']_vars

\* C13's case: the markup and the data were edited one `delay` ago (the store
\* still holds the markup saved before), the markup's timer has fired and
\* the data's is due; the output is the rendering of the new markup against
\* the old DataObject.
C13_Witness ==
    /\ store["html"] \notin {Absent, html}
    /\ dirtyAge = delay
    /\ htmlTimer = NoTimer
    /\ paramsTimer = 0
    /\ debouncedHtml = html
    /\ params # debouncedParams
    /\ compiledHtml = Render(html, debouncedParams)
    /\ compiledHtml # Render(html, params)

\* C13 as claimed: a recompilation caused by a firing timer runs on the
\* markup and the DataObject in memory at that moment.
C13_AsClaimed ==
    [][((htmlDebounced /\ html # debouncedHtml)
            \/ (paramsDebounced /\ ~SameValue(params, debouncedParams))) =>
           compiledHtml' = IF CompileFails(html) THEN html
                           ELSE Render(html, params)]_vars

\* C14: the debounced values and the CompiledOutput change only in a step of
\* one of the two useDebounce timers, never in an edit; every edit of the
\* markup or of the DataObject starts its Document's wait of `delay` anew;
\* a wait runs down only as time passes; and a debounced value follows its
\* Document only when a whole `delay` has passed since the last edit of it.
C14_RecompileOnlyAfterQuiet ==
    [][/\ (compiledHtml' # compiledHtml \/ debouncedHtml' # debouncedHtml
               \/ debouncedParams' # debouncedParams \/ lastGood' # lastGood) =>
              (htmlDebounced \/ paramsDebounced)
       /\ \A text \in HtmlTexts : setHtml(text) => htmlTimer' = delay
       /\ \A val \in DataTexts :
              (onChangeData(val) /\ params' # params) => paramsTimer' = delay
       /\ debouncedHtml' # debouncedHtml => (htmlDebounced /\ htmlTimer = 0)
       /\ debouncedParams' # debouncedParams =>
              (paramsDebounced /\ paramsTimer = 0)
       /\ (htmlTimer' = htmlTimer - 1 \/ paramsTimer' = paramsTimer - 1) =>
              (Tick \/ htmlDebounced \/ paramsDebounced)]_vars

\* C14's case: the writer's calls have gone on for most of maxWait and a save
\* has already stored the markup in memory, yet the preview still shows the
\* markup from before: the last markup edit is one `delay` old, its timer is
\* due and has not fired.
C14_Witness ==
    /\ html # debouncedHtml
    /\ htmlTimer = 0
    /\ compiledHtml = Render(debouncedHtml, debouncedParams)
    /\ compiledHtml # Render(html, debouncedParams)
    /\ store["html"] = html
    /\ dirtyAge = Never
    /\ burst.len >= maxWait - wait

\* C15: with a store that refuses writes at times, nothing is ever shown to
\* the user, the CompiledOutput stays the rendering of the debounced values,
\* pending arguments of the writer always have a timer and no call waits
\* longer than maxWait for an attempt; a failing execution changes nothing
\* in memory and leaves the writer as a successful one would; and every edit
\* still sets its Document and schedules the writer.
C15_WriteFailureIsSwallowed ==
    /\ [](/\ alert = None
          /\ compiledHtml = Render(debouncedHtml, debouncedParams)
          /\ deb.lastArgs # <<>> => deb.timerId # NoTimer
          /\ dirtyAge <= maxWait)
    /\ [][/\ (writeTimerExpired /\ storeFails
                  /\ timerExpired(deb).exec # <<>>) =>
                 /\ UNCHANGED <<html, css, params, paramsJson, debouncedHtml,
                                debouncedParams, compiledHtml, htmlTimer,
                                alert, console>>
                 /\ deb' = timerExpired(deb).deb
                 /\ store' \in {WriteAll(store, timerExpired(deb).exec[1], n) :
                                    n \in 0..2}
          /\ \A text \in HtmlTexts :
                 setHtml(text) =>
                     (html' = text /\ htmlTimer' = delay
                          /\ deb'.timerId # NoTimer)
          /\ \A text \in CssTexts :
                 setCss(text) => (css' = text /\ deb'.timerId # NoTimer)]_vars

\* C15's case: an execution of the writer stored the markup and then failed;
\* the markup was edited after it, the preview has followed the edit, and
\* the writer is scheduled again with the new values.
C15_Witness ==
    /\ storeFails
    /\ burst.wrote \in {1, 2}
    /\ store["html"] \notin {Absent, html}
    /\ store["css"] # css
    /\ htmlTimer = NoTimer
    /\ debouncedHtml = html
    /\ compiledHtml = Render(html, params)
    /\ deb.lastArgs = <<Args(html, css, params)>>
    /\ deb.timerId # NoTimer
    /\ alert = None

\* C16: if from some moment on no editor is used, then from some moment on
\* the three keys hold the markup, the stylesheet and the DataObject in
\* memory and the CompiledOutput is the rendering of that markup against
\* that DataObject (the raw markup when it does not compile), for good.
C16_EventuallyConsistent ==
    (<>[][~(\/ \E text \in HtmlTexts : setHtml(text)
            \/ \E text \in CssTexts : setCss(text)
            \/ \E val \in DataTexts : onChangeData(val))]_vars)
        => <>[](/\ store = Snapshot
                /\ compiledHtml = IF CompileFails(html) THEN html
                                  ELSE Render(html, params))

\* C16's case: after a burst of edits of the markup and the data that lasted
\* longer than `wait`, every timer has run; the store and the preview have
\* the values in memory.
C16_Witness ==
    /\ html # htmlExample
    /\ params # defaultParams
    /\ burst.editLen # Never
    /\ burst.editLen > wait
    /\ htmlTimer = NoTimer /\ paramsTimer = NoTimer
    /\ Closed
    /\ store = Snapshot
    /\ compiledHtml = Render(html, params)

\* C17: a click with a key sends one request that carries the markup, the
\* stylesheet and the Credential in memory at that moment; neither the click
\* nor the response changes a Document, the DataObject, the debounced
\* values, the CompiledOutput or the store.
C17_PayloadIsCurrent ==
    [][/\ (onClick /\ apiKey # "") =>
              inflight' = Append(inflight,
                                 [body |-> html, styles |-> css,
                                  headers |-> [Authorization |-> apiKey]])
       /\ (onClick \/ \E i \in 1..Len(inflight), r \in Responses :
                          onResponse(i, r)) =>
              UNCHANGED <<html, css, params, paramsJson, apiKey,
                          debouncedHtml, debouncedParams, compiledHtml,
                          store, deb>>]_vars

\* C17's case: a request is in flight that carries a markup and a stylesheet
\* edited since the preview and the store were last brought up to date.
C17_Witness ==
    /\ Len(inflight) = 1
    /\ inflight[1].body = html
    /\ inflight[1].styles = css
    /\ inflight[1].headers.Authorization = apiKey
    /\ html # debouncedHtml
    /\ html # store["html"]
    /\ css # store["css"]
    /\ store["css"] # Absent

\* C18 as claimed: nothing written to the console holds a Credential.
C18_KeyNeverLogged == console.authorization \notin Credentials

\* C19: the button is disabled only while a request is in flight; a click
\* without a key leaves it enabled; every response enables it; and, the
\* network answering every request, a disabled button is always enabled
\* again.
C19_ButtonEnabledAgain ==
    /\ [](loading => inflight # <<>>)
    /\ [][/\ (onClick /\ apiKey = "") => ~loading'
          /\ (\E i \in 1..Len(inflight), r \in Responses : onResponse(i, r)) =>
                 ~loading']_vars
    /\ loading ~> ~loading

\* C19's case: a publish has failed, the button was clicked again and that
\* publish has succeeded; the button is enabled.
C19_Witness ==
    /\ ~loading
    /\ ButtonEnabled
    /\ inflight = <<>>
    /\ console.what = "AxiosError"
    /\ alert = SuccessMessage("tpl-1")

\* C20: as long as no Document has been changed since the session's start,
\* the writer holds the initial Documents with a timer that ends `wait` after
\* the start and has not executed; once `wait` has passed and the timer has
\* run, it has executed exactly once and the three keys hold the initial
\* Documents, built-in defaults included.
C20_SaveAtSessionStart ==
    burst.editLen = Never =>
        IF deb.timeSinceLastCall < wait
        THEN /\ deb.timerId = wait - deb.timeSinceLastCall
             /\ deb.lastArgs = <<Args(html, css, params)>>
             /\ burst.execs = 0
        ELSE \/ /\ deb.timerId = 0
                /\ deb.lastArgs = <<Args(html, css, params)>>
                /\ burst.execs = 0
             \/ /\ deb.timerId = NoTimer
                /\ burst.execs = 1
                /\ store = Snapshot
                /\ \A k \in Keys : store[k] # Absent

\* C20's case: a session that started with built-in defaults has seen no edit
\* for `wait`, and the defaults are in the store.
C20_Witness ==
    /\ burst.editLen = Never
    /\ Closed
    /\ burst.execs = 1
    /\ html = htmlExample /\ css = cssExample /\ params = defaultParams
    /\ store["html"] = htmlExample
    /\ store["css"] = cssExample
    /\ store["params"] = CompactDefault

====
